---- MODULE Spec2Model ----
(***************************************************************************)
(* Model of the ML phishing detection service (src/ML/main.py): the model  *)
(* lifecycle (load once at startup), GET /, GET /health and POST /analyze   *)
(* with its three helpers _prepare_text_for_analysis, _run_inference and    *)
(* _generate_response_message.                                              *)
(*                                                                         *)
(* Encoding.  A Python str that the code slices or joins (url, title, text, *)
(* analysis_text) is a sequence of one-character strings.  An Optional[str] *)
(* field is a record [some, s]: some = FALSE is None (or, for the required  *)
(* url, a field missing from the JSON body).  A probability is an integer   *)
(* number of units of 0.0002 (0 .. ONE).  A response message is the        *)
(* sequence of its space-separated words; the two emoji of the source are   *)
(* written "[warn]" and "[ok]".  The tokenizer and the transformer are the  *)
(* external collaborator: the class-1 probability they produce for a text   *)
(* and the exception they may raise are inputs of the request.              *)
(***************************************************************************)
EXTENDS Integers, Sequences, FiniteSets, TLC

VARIABLES
    model,      \* global `model`     (None until load_model assigns it)
    tokenizer,  \* global `tokenizer` (None until load_model assigns it)
    device,     \* global `device`    (None until load_model assigns it)
    phase,      \* lifecycle of the process: Unloaded, Loading, Ready, Failed
    loads,      \* number of times load_model has run
    request,    \* the last request handled
    response,   \* the response the caller got for it
    calls,      \* per component, how often the last request invoked it
    at,         \* history: the lifecycle phase in which `response` was produced
    load_error, \* history: load_model raised
    args,       \* helper harness: the arguments a helper is applied to
    ret,        \* helper harness: what the helper returned
    clients,    \* concurrent callers: per client, its request in flight and its response
    alt         \* the alternate service (src/ai/ml-inference/main.py): app state and last exchange

vars == <<model, tokenizer, device, phase, loads, request, response, calls, at,
          load_error, args, ret, clients, alt>>

service_vars == <<model, tokenizer, device, phase, loads, request, response, calls, at,
                  load_error>>

harness_vars == <<args, ret>>

other_vars == <<clients, alt>>

None == "None"

model_name == "ealvaradob/bert-finetuned-phishing"

-----------------------------------------------------------------------------
(* Strings *)

NoneStr == [some |-> FALSE, s |-> <<>>]

Some(s) == [some |-> TRUE, s |-> s]

\* Python truthiness of an Optional[str]: None and "" are falsy.
Truthy(o) == o.some /\ Len(o.s) > 0

\* " ".join(parts) over a list of character sequences.
RECURSIVE Join(_)
Join(parts) ==
    IF Len(parts) = 0 THEN <<>>
    ELSE IF Len(parts) = 1 THEN parts[1]
    ELSE parts[1] \o <<" ">> \o Join(Tail(parts))

URL_LABEL == <<"U", "R", "L", ":", " ">>

TITLE_LABEL == <<"T", "i", "t", "l", "e", ":", " ">>

CONTENT_LABEL == <<"C", "o", "n", "t", "e", "n", "t", ":", " ">>

\* request.text[:1000] if len(request.text) > 1000 else request.text
TEXT_LIMIT == 1000

\* Mutant: keeps the last TEXT_LIMIT characters (request.text[-1000:]).
Truncate_last(text) ==
    IF Len(text) > TEXT_LIMIT
    THEN SubSeq(text, Len(text) - TEXT_LIMIT + 1, Len(text))
    ELSE text

Truncate(text) ==
    IF Len(text) > TEXT_LIMIT THEN SubSeq(text, 1, TEXT_LIMIT) ELSE text

_prepare_text_for_analysis(req) ==
    LET p1 == IF Truthy(req.url) THEN <<URL_LABEL \o req.url.s>> ELSE <<>>
        p2 == IF Truthy(req.title) THEN Append(p1, TITLE_LABEL \o req.title.s) ELSE p1
        p3 == IF Truthy(req.text)
              THEN Append(p2, CONTENT_LABEL \o Truncate(req.text.s))
              ELSE p2
        text_parts == IF Len(p3) = 0 THEN <<req.url.s>> ELSE p3
    IN  Join(text_parts)

-----------------------------------------------------------------------------
(* Numbers *)

\* The probability 1.0.  A probability is a whole number of units of 0.0002:
\* fine enough for values that lie strictly between two percentages of one
\* decimal place (0.8002 is above the 0.8 threshold and prints as 80.0%),
\* and no such value lies exactly halfway between two of them, where the
\* printed digit would depend on the binary representation of the float.
ONE == 5000

Digits == <<"0", "1", "2", "3", "4", "5", "6", "7", "8", "9">>

\* str(n) for a natural number n.
RECURSIVE IntToStr(_)
IntToStr(n) ==
    IF n < 10 THEN Digits[n + 1]
    ELSE IntToStr(n \div 10) \o Digits[(n % 10) + 1]

\* Mutant: no decimal place (f"{confidence:.0%}").
FormatPercent_whole(confidence) ==
    IntToStr((confidence * 100) \div ONE) \o "%"

\* f"{confidence:.1%}": the value times 100, rounded to one decimal place
\* (to the nearest tenth, an exact half to the even digit), followed by a
\* percent sign.
FormatPercent(confidence) ==
    LET q == (confidence * 100 * 10) \div ONE
        r == (confidence * 100 * 10) % ONE
        tenths == IF 2 * r > ONE \/ (2 * r = ONE /\ q % 2 = 1) THEN q + 1 ELSE q
    IN  IntToStr(tenths \div 10) \o "." \o Digits[(tenths % 10) + 1] \o "%"

-----------------------------------------------------------------------------
(* _generate_response_message *)

\* confidence > 0.8 (0.8 * ONE)
HIGH_THRESHOLD == 4000

\* confidence > 0.6 (0.6 * ONE)
MID_THRESHOLD == 3000

\* Mutant: the comparisons are >= instead of >.
Tier_ge(is_phishing, confidence) ==
    IF is_phishing
    THEN IF confidence >= HIGH_THRESHOLD THEN "HIGH RISK"
         ELSE IF confidence >= MID_THRESHOLD THEN "SUSPICIOUS"
         ELSE "POTENTIAL RISK"
    ELSE IF confidence >= HIGH_THRESHOLD THEN "SAFE"
         ELSE IF confidence >= MID_THRESHOLD THEN "LIKELY SAFE"
         ELSE "UNCERTAIN"

\* The if/elif ladder of _generate_response_message: which return is taken.
Tier(is_phishing, confidence) ==
    IF is_phishing
    THEN IF confidence > HIGH_THRESHOLD THEN "HIGH RISK"
         ELSE IF confidence > MID_THRESHOLD THEN "SUSPICIOUS"
         ELSE "POTENTIAL RISK"
    ELSE IF confidence > HIGH_THRESHOLD THEN "SAFE"
         ELSE IF confidence > MID_THRESHOLD THEN "LIKELY SAFE"
         ELSE "UNCERTAIN"

\* The f-string each return formats; pct is "{confidence:.1%}".
Message(tier, pct) ==
    CASE tier = "HIGH RISK" ->
            <<"[warn]", "HIGH", "RISK:", "This", "link", "appears", "to", "be",
              "a", "phishing", "attempt", "with", pct, "confidence.",
              "Proceed", "with", "extreme", "caution.">>
      [] tier = "SUSPICIOUS" ->
            <<"[warn]", "SUSPICIOUS:", "This", "link", "shows", "signs", "of",
              "phishing", "with", pct, "confidence.", "Consider", "avoiding",
              "this", "link.">>
      [] tier = "POTENTIAL RISK" ->
            <<"[warn]", "POTENTIAL", "RISK:", "This", "link", "has", "some",
              "suspicious", "characteristics", "with", pct, "confidence.">>
      [] tier = "SAFE" ->
            <<"[ok]", "SAFE:", "This", "link", "appears", "legitimate", "with",
              pct, "confidence.">>
      [] tier = "LIKELY SAFE" ->
            <<"[ok]", "LIKELY", "SAFE:", "This", "link", "appears", "to", "be",
              "legitimate", "with", pct, "confidence.">>
      [] tier = "UNCERTAIN" ->
            <<"[warn]", "UNCERTAIN:", "Unable", "to", "determine", "with",
              "high", "confidence.", "Proceed", "with", "caution.">>

_generate_response_message(is_phishing, confidence, url) ==
    Message(Tier(is_phishing, confidence), FormatPercent(confidence))

-----------------------------------------------------------------------------
(* _run_inference *)

\* What the external tokenizer and model do for one call: the stage at which
\* an exception is raised ("none": no exception), its description, and the
\* softmax output, a pair <<P(class 0), P(class 1)>> in units of 1/ONE.
NoCalls == [normalize |-> 0, tokenizer |-> 0, model |-> 0, format |-> 0]

\* torch.argmax over the two classes, as a Python index: the first maximal one.
argmax(probabilities) == IF probabilities[2] > probabilities[1] THEN 1 ELSE 0

\* Calling the global tokenizer or model while it is None raises TypeError.
NoneTypeNotCallable == "'NoneType' object is not callable"

\* Mutant: risk_score is the probability of the predicted class.
_run_inference_risk_of_prediction(text, ext) ==
    IF tokenizer = None \/ model = None
    THEN [exc |-> TRUE, desc |-> NoneTypeNotCallable,
          tokenizer_calls |-> 0, model_calls |-> 0]
    ELSE
    LET probabilities == ext.probabilities
        prediction == argmax(probabilities)
    IN  [exc |-> FALSE, is_phishing |-> (prediction = 1),
         confidence |-> probabilities[prediction + 1],
         risk_score |-> probabilities[prediction + 1],
         tokenizer_calls |-> 1, model_calls |-> 1]

_run_inference(text, ext) ==
    IF tokenizer = None
    THEN [exc |-> TRUE, desc |-> NoneTypeNotCallable,
          tokenizer_calls |-> 0, model_calls |-> 0]
    ELSE IF ext.fault = "tokenize"
    THEN [exc |-> TRUE, desc |-> ext.desc, tokenizer_calls |-> 1, model_calls |-> 0]
    ELSE IF ext.fault = "to_device"
    THEN [exc |-> TRUE, desc |-> ext.desc, tokenizer_calls |-> 1, model_calls |-> 0]
    ELSE IF model = None
    THEN [exc |-> TRUE, desc |-> NoneTypeNotCallable,
          tokenizer_calls |-> 1, model_calls |-> 0]
    ELSE IF ext.fault = "forward"
    THEN [exc |-> TRUE, desc |-> ext.desc, tokenizer_calls |-> 1, model_calls |-> 1]
    ELSE LET probabilities == ext.probabilities
             prediction == argmax(probabilities)
             confidence == probabilities[prediction + 1]
             risk_score == probabilities[1 + 1]
             is_phishing == (prediction = 1)
         IN  [exc |-> FALSE, is_phishing |-> is_phishing, confidence |-> confidence,
              risk_score |-> risk_score, tokenizer_calls |-> 1, model_calls |-> 1]

-----------------------------------------------------------------------------
(* Handlers *)

\* str(e) of an HTTPException.  The class is the framework's: where it
\* defines __str__ the text is "<status_code>: <detail>", where it does not
\* (the exception is built without positional arguments) the text is empty.
HTTPExceptionStr(status_code, detail, defines_str) ==
    IF defines_str THEN IntToStr(status_code) \o ": " \o detail ELSE ""

\* raise HTTPException(status_code=..., detail=...): the error response.
HTTPException(status_code, detail) ==
    [kind |-> "analyze", status_code |-> status_code, detail |-> detail]

root == [kind |-> "root", status_code |-> 200,
         message |-> "ML Phishing Detection Service is running"]

health_check ==
    [kind |-> "health", status_code |-> 200,
     status |-> "healthy",
     service |-> "ml-phishing-detector",
     model_loaded |-> (model # None),
     device |-> IF device # None THEN device ELSE "unknown"]

\* The try block of analyze_phishing: either the assembled result or the
\* exception that left it (exc, with str(e) in desc), and the calls made.
analyze_try(req, ext) ==
    IF model = None \/ tokenizer = None
    THEN [exc |-> TRUE, desc |-> HTTPExceptionStr(503, "Model not loaded", ext.defines_str),
          calls |-> NoCalls]
    ELSE IF ext.fault = "normalize"
    THEN [exc |-> TRUE, desc |-> ext.desc,
          calls |-> [NoCalls EXCEPT !.normalize = 1]]
    ELSE
    LET analysis_text == _prepare_text_for_analysis(req)
        inf == _run_inference(analysis_text, ext)
        c1 == [NoCalls EXCEPT !.normalize = 1,
                              !.tokenizer = inf.tokenizer_calls,
                              !.model = inf.model_calls]
        c2 == [c1 EXCEPT !.format = 1]
    IN  IF inf.exc
        THEN [exc |-> TRUE, desc |-> inf.desc, calls |-> c1]
        ELSE IF ext.fault = "format"
        THEN [exc |-> TRUE, desc |-> ext.desc, calls |-> c2]
        ELSE IF ext.fault = "assemble"
        THEN [exc |-> TRUE, desc |-> ext.desc, calls |-> c2]
        ELSE [exc |-> FALSE,
              result |->
                  [kind |-> "analyze", status_code |-> 200,
                   is_phishing |-> inf.is_phishing,
                   confidence |-> inf.confidence,
                   risk_score |-> inf.risk_score,
                   message |-> _generate_response_message(
                                   inf.is_phishing, inf.confidence, req.url),
                   details |-> [model_used |-> model_name,
                                analysis_text |-> analysis_text,
                                device |-> device]],
              calls |-> c2]

\* Mutant: a failed try block is run a second time before giving up.
analyze_phishing_retry(req, ext) ==
    LET body == analyze_try(req, ext)
    IN  IF body.exc
        THEN [response |-> HTTPException(500, "Analysis failed: " \o body.desc),
              calls |-> [k \in DOMAIN body.calls |-> 2 * body.calls[k]]]
        ELSE [response |-> body.result, calls |-> body.calls]

\* Mutant: no except clause; the exception reaches the framework, which answers
\* with its own 500.
analyze_phishing_uncaught(req, ext) ==
    LET body == analyze_try(req, ext)
    IN  IF body.exc
        THEN [response |-> HTTPException(500, "Internal Server Error"),
              calls |-> body.calls]
        ELSE [response |-> body.result, calls |-> body.calls]

\* analyze_phishing: the try block and its `except Exception` clause.
analyze_phishing(req, ext) ==
    LET body == analyze_try(req, ext)
    IN  IF body.exc
        THEN [response |-> HTTPException(500, "Analysis failed: " \o body.desc),
              calls |-> body.calls]
        ELSE [response |-> body.result, calls |-> body.calls]

\* Mutant: url declared Optional[str] = None.
PhishingAnalysisRequest_optional_url(req) == TRUE

\* PhishingAnalysisRequest: url is a required str, title and text are optional.
\* A body that does not validate is answered 422 and the handler is not called.
PhishingAnalysisRequest(req) == req.url.some

post_analyze(req, ext) ==
    IF ~PhishingAnalysisRequest(req)
    THEN [response |-> [kind |-> "analyze", status_code |-> 422,
                        detail |-> "Field required"],
          calls |-> NoCalls]
    ELSE analyze_phishing(req, ext)

\* Mutant: no `global` statement, the assignments bind locals.
load_model_locals(cuda, failure) ==
    [device |-> device, tokenizer |-> tokenizer, model |-> model,
     raised |-> failure # "none"]

\* load_model: the globals after the startup handler ran, and whether it raised.
\* `failure` is the statement that raised: "none", "tokenizer" (line 65),
\* "model" (line 66) or "to_device" (lines 69-70).
load_model(cuda, failure) ==
    [device |-> IF cuda THEN "cuda" ELSE "cpu",
     tokenizer |-> IF failure = "tokenizer" THEN tokenizer ELSE "tokenizer",
     model |-> IF failure \in {"tokenizer", "model"} THEN model ELSE "model",
     raised |-> failure # "none"]

-----------------------------------------------------------------------------
(* Inputs *)

\* Longest url and title, and how far a text goes beyond TEXT_LIMIT.
MaxUrlLen == 2

MaxTitleLen == 2

MaxOver == 2

Alphabet == <<"a", "b", "c">>

\* A string of n characters; k varies its content.
Str(n, k) == [i \in 1..n |-> Alphabet[((i * k) % Len(Alphabet)) + 1]]

Urls == {NoneStr} \cup {Some(Str(n, 1)) : n \in 0..MaxUrlLen}

Titles == {NoneStr} \cup {Some(Str(n, 2)) : n \in 0..MaxTitleLen}

TextLens == {0, 1} \cup (TEXT_LIMIT .. TEXT_LIMIT + MaxOver)

Texts == {NoneStr} \cup {Some(Str(n, 1)) : n \in TextLens}

Requests == [url : Urls, title : Titles, text : Texts]

ServiceRequests ==
    [url : {NoneStr, Some(Str(MaxUrlLen, 1))},
     title : {NoneStr, Some(Str(MaxTitleLen, 2))},
     text : {NoneStr, Some(Str(1, 1)), Some(Str(TEXT_LIMIT + MaxOver, 1))}]

Distribution(p) == <<ONE - p, p>>

Distributions == {Distribution(p) : p \in 0..ONE}

ServiceDistributions ==
    {Distribution(p) : p \in {0, ONE \div 2, (ONE \div 2) + 1,
                              MID_THRESHOLD, MID_THRESHOLD + 1,
                              HIGH_THRESHOLD, HIGH_THRESHOLD + 1, ONE}}

Stages == {"normalize", "tokenize", "to_device", "forward", "format", "assemble"}

Descriptions == {"CUDA out of memory", "index out of range"}

NoFault(d) == [fault |-> "none", desc |-> "", probabilities |-> d, defines_str |-> TRUE]

\* The same outcome under a framework whose HTTPException has no __str__.
WithoutStr(e) == [e EXCEPT !.defines_str = FALSE]

ExternalsWithStr ==
    {NoFault(d) : d \in ServiceDistributions}
    \cup [fault : Stages, desc : Descriptions, probabilities : {Distribution(0)},
          defines_str : {TRUE}]

Externals == ExternalsWithStr \cup {WithoutStr(e) : e \in ExternalsWithStr}

-----------------------------------------------------------------------------
(* The service *)

ServiceInit ==
    /\ model = None
    /\ tokenizer = None
    /\ device = None
    /\ phase = "Unloaded"
    /\ loads = 0
    /\ request = [kind |-> "none"]
    /\ response = [kind |-> "none"]
    /\ calls = NoCalls
    /\ at = "Unloaded"
    /\ load_error = FALSE

\* The service after a successful load_model, before any request.
ServiceReady ==
    /\ model = "model"
    /\ tokenizer = "tokenizer"
    /\ device = "cpu"
    /\ phase = "Ready"
    /\ loads = 1
    /\ request = [kind |-> "none"]
    /\ response = [kind |-> "none"]
    /\ calls = NoCalls
    /\ at = "Unloaded"
    /\ load_error = FALSE

HarnessIdle ==
    /\ args = [fn |-> "none"]
    /\ ret = [done |-> FALSE]

\* How many callers have requests in flight at once.
NumClients == 2

Clients == 1..NumClients

Idle == [state |-> "idle"]

OthersIdle ==
    /\ clients = [c \in Clients |-> Idle]
    /\ alt = [phase |-> "Unloaded", tokenizer |-> None, model |-> None,
              request |-> [kind |-> "none"], response |-> [kind |-> "none"],
              at |-> "Unloaded"]

Init == ServiceInit /\ HarnessIdle /\ OthersIdle

\* Requests reach the handlers of a started application (Ready), or of an
\* application object whose startup event has not been run (Unloaded).
Serving == phase \in {"Unloaded", "Ready"}

\* uvicorn.run(app): the process starts and fires the startup event.
Startup ==
    /\ phase = "Unloaded"
    /\ phase' = "Loading"
    /\ UNCHANGED <<model, tokenizer, device, loads, request, response, calls, at,
                   load_error>>
    /\ UNCHANGED harness_vars
    /\ UNCHANGED other_vars

\* Mutant: the except clause logs the error and does not re-raise it.
LoadModel_swallow ==
    /\ phase = "Loading"
    /\ \E cuda \in BOOLEAN, failure \in {"none", "tokenizer", "model", "to_device"} :
          LET g == load_model(cuda, failure)
          IN  /\ device' = g.device
              /\ tokenizer' = g.tokenizer
              /\ model' = g.model
              /\ load_error' = g.raised
              /\ phase' = "Ready"
    /\ loads' = loads + 1
    /\ UNCHANGED <<request, response, calls, at>>
    /\ UNCHANGED harness_vars
    /\ UNCHANGED other_vars

\* The startup event handler; an exception it re-raises aborts the startup.
LoadModel ==
    /\ phase = "Loading"
    /\ \E cuda \in BOOLEAN, failure \in {"none", "tokenizer", "model", "to_device"} :
          LET g == load_model(cuda, failure)
          IN  /\ device' = g.device
              /\ tokenizer' = g.tokenizer
              /\ model' = g.model
              /\ load_error' = g.raised
              /\ phase' = IF g.raised THEN "Failed" ELSE "Ready"
    /\ loads' = loads + 1
    /\ UNCHANGED <<request, response, calls, at>>
    /\ UNCHANGED harness_vars
    /\ UNCHANGED other_vars

GetRoot ==
    /\ Serving
    /\ request' = [kind |-> "root"]
    /\ response' = root
    /\ calls' = NoCalls
    /\ at' = phase
    /\ UNCHANGED <<model, tokenizer, device, phase, loads, load_error>>
    /\ UNCHANGED harness_vars
    /\ UNCHANGED other_vars

GetHealth ==
    /\ Serving
    /\ request' = [kind |-> "health"]
    /\ response' = health_check
    /\ calls' = NoCalls
    /\ at' = phase
    /\ UNCHANGED <<model, tokenizer, device, phase, loads, load_error>>
    /\ UNCHANGED harness_vars
    /\ UNCHANGED other_vars

PostAnalyze ==
    /\ Serving
    /\ \E req \in ServiceRequests, ext \in Externals :
          LET out == post_analyze(req, ext)
          IN  /\ request' = [kind |-> "analyze", body |-> req, ext |-> ext]
              /\ response' = out.response
              /\ calls' = out.calls
    /\ at' = phase
    /\ UNCHANGED <<model, tokenizer, device, phase, loads, load_error>>
    /\ UNCHANGED harness_vars
    /\ UNCHANGED other_vars

Next == Startup \/ LoadModel \/ GetRoot \/ GetHealth \/ PostAnalyze

Spec == Init /\ [][Next]_vars

-----------------------------------------------------------------------------
(* The helpers on their own: each is applied once to arguments drawn by Init *)

PrepareArgs ==
    {[fn |-> "prepare", request |-> r] : r \in {q \in Requests : PhishingAnalysisRequest(q)}}

InferenceArgs == {[fn |-> "inference", probabilities |-> d] : d \in Distributions}

MessageArgs ==
    {[fn |-> "message", is_phishing |-> b, confidence |-> c] :
        b \in BOOLEAN, c \in 0..ONE}

\* A helper is applied either right after import (nothing loaded) or in the
\* loaded service.
HelpersInit ==
    /\ (ServiceInit \/ ServiceReady)
    /\ OthersIdle
    /\ args \in PrepareArgs \cup InferenceArgs \cup MessageArgs
    /\ ret = [done |-> FALSE]

ApplyPrepare ==
    /\ args.fn = "prepare"
    /\ ~ret.done
    /\ ret' = [done |-> TRUE, value |-> _prepare_text_for_analysis(args.request)]
    /\ UNCHANGED args
    /\ UNCHANGED service_vars
    /\ UNCHANGED other_vars

ApplyInference ==
    /\ args.fn = "inference"
    /\ ~ret.done
    /\ ret' = [done |-> TRUE,
               value |-> _run_inference(<<>>, NoFault(args.probabilities))]
    /\ UNCHANGED args
    /\ UNCHANGED service_vars
    /\ UNCHANGED other_vars

ApplyMessage ==
    /\ args.fn = "message"
    /\ ~ret.done
    /\ ret' = [done |-> TRUE,
               value |-> _generate_response_message(
                             args.is_phishing, args.confidence, <<>>)]
    /\ UNCHANGED args
    /\ UNCHANGED service_vars
    /\ UNCHANGED other_vars

HelpersNext == ApplyPrepare \/ ApplyInference \/ ApplyMessage

Helpers == HelpersInit /\ [][HelpersNext]_vars

-----------------------------------------------------------------------------
(* Properties of the service (specification Spec) *)

\* The last request was a POST /analyze whose body validated, so that the
\* handler analyze_phishing ran.
AnalyzeHandled == response.kind = "analyze" /\ PhishingAnalysisRequest(request.body)

\* C1: a POST /analyze handled while the model or the tokenizer is not loaded
\* is answered 503 'Model not loaded', not the 500 'Analysis failed' of the
\* other failures.
C1_NotLoadedAnswers503 ==
    (AnalyzeHandled /\ at = "Unloaded")
        => /\ response.status_code = 503
           /\ response.detail = "Model not loaded"

\* C6: GET /health always answers 200 with status 'healthy'; it reports
\* model_loaded false when handled before the model is loaded and true when
\* handled after load_model completed successfully.
C6_HealthReportsModelLoaded ==
    response.kind = "health"
        => /\ response.status_code = 200
           /\ response.status = "healthy"
           /\ (at = "Unloaded" => response.model_loaded = FALSE)
           /\ (at = "Ready" => response.model_loaded = TRUE)

C6_Witness ==
    /\ response.kind = "health"
    /\ at = "Ready"
    /\ loads = 1
    /\ response.model_loaded

\* C7: a POST /analyze without url is rejected as a validation failure and
\* invokes neither the normalizer nor the tokenizer nor the model.
C7_MissingUrlRejected ==
    (response.kind = "analyze" /\ ~request.body.url.some)
        => /\ response.status_code = 422
           /\ calls = NoCalls

C7_Witness ==
    /\ response.kind = "analyze"
    /\ ~request.body.url.some
    /\ at = "Ready"
    /\ response.status_code = 422

\* C8: an exception raised at any stage of a ready /analyze request is
\* answered 500 with detail 'Analysis failed: ' followed by the exception's
\* description, and the service goes on serving with its model in place.
C8_FailureAnswered500 ==
    (AnalyzeHandled /\ at = "Ready" /\ request.ext.fault # "none")
        => /\ response.status_code = 500
           /\ response.detail = "Analysis failed: " \o request.ext.desc
           /\ Serving
           /\ model # None
           /\ tokenizer # None

C8_Witness ==
    /\ AnalyzeHandled
    /\ at = "Ready"
    /\ request.ext.fault = "forward"
    /\ response.status_code = 500

\* C10: the lifecycle takes only the steps Unloaded -> Loading, Loading ->
\* Ready and Loading -> Failed; load_model runs at most once; a load error
\* ends in Failed, which is never left and never serves; once Ready, no step
\* changes model, tokenizer or device.
LifecycleSteps ==
    {<<"Unloaded", "Loading">>, <<"Loading", "Ready">>, <<"Loading", "Failed">>}

C10_LifecycleStep ==
    /\ (phase' # phase => <<phase, phase'>> \in LifecycleSteps)
    /\ loads' <= 1
    /\ (load_error' => phase' = "Failed")
    /\ (phase = "Failed" => UNCHANGED <<request, response>>)
    /\ (phase = "Ready" => UNCHANGED <<model, tokenizer, device>>)
    /\ (phase' = "Ready" => model' # None /\ tokenizer' # None /\ device' # None)

C10_Lifecycle == [][C10_LifecycleStep]_vars

C10_Witness ==
    /\ phase = "Ready"
    /\ AnalyzeHandled
    /\ at = "Ready"
    /\ response.status_code = 500

-----------------------------------------------------------------------------
(* Properties of the helpers (specification Helpers) *)

Prepared == args.fn = "prepare" /\ ret.done

\* C2: with a non-empty url and neither title nor text set, the normalized
\* text equals the url exactly.
C2_UrlOnlyIsBareUrl ==
    (/\ Prepared
     /\ Len(args.request.url.s) > 0
     /\ ~args.request.title.some
     /\ ~args.request.text.some)
        => ret.value = args.request.url.s

\* A segment: its label followed by its body, or nothing when the field is
\* absent or empty.
Segment(label, field, body) == IF Truthy(field) THEN label \o body ELSE <<>>

\* Two pieces separated by one space when both are there.
Spaced(a, b) == IF Len(a) > 0 /\ Len(b) > 0 THEN a \o <<" ">> \o b ELSE a \o b

FirstChars(text, n) == [i \in 1..(IF Len(text) > n THEN n ELSE Len(text)) |-> text[i]]

\* C4: the normalized text is the URL, Title and Content segments that are
\* present, in that order, separated by single spaces; the Content segment
\* holds the first 1000 characters of text.
C4_SegmentsInOrderContentTruncated ==
    Prepared =>
        LET r == args.request
        IN  ret.value =
                Spaced(Spaced(Segment(URL_LABEL, r.url, r.url.s),
                              Segment(TITLE_LABEL, r.title, r.title.s)),
                       Segment(CONTENT_LABEL, r.text, FirstChars(r.text.s, 1000)))

C4_Witness ==
    /\ Prepared
    /\ Truthy(args.request.url)
    /\ Truthy(args.request.title)
    /\ Len(args.request.text.s) > 1000
    /\ Len(ret.value) =
           Len(URL_LABEL) + Len(args.request.url.s) + 1
           + Len(TITLE_LABEL) + Len(args.request.title.s) + 1
           + Len(CONTENT_LABEL) + 1000

Classified == args.fn = "inference" /\ ret.done /\ ~ret.value.exc

\* C5: risk_score is the probability of class index 1 whatever the label;
\* confidence is risk_score when is_phishing and 1 - risk_score otherwise.
C5_ConfidenceAndRiskScore ==
    Classified =>
        /\ ret.value.risk_score = args.probabilities[2]
        /\ (ret.value.is_phishing => ret.value.confidence = ret.value.risk_score)
        /\ (~ret.value.is_phishing
                => ret.value.confidence = ONE - ret.value.risk_score)

\* The tie: both classes have probability 0.5.
C5_Witness ==
    /\ Classified
    /\ args.probabilities[1] = args.probabilities[2]
    /\ ~ret.value.is_phishing
    /\ ret.value.confidence = ret.value.risk_score

Formatted == args.fn = "message" /\ ret.done

HasPrefix(msg, p) == Len(msg) >= Len(p) /\ SubSeq(msg, 1, Len(p)) = p

TierLabels ==
    [t \in {"HIGH RISK", "SUSPICIOUS", "POTENTIAL RISK", "SAFE", "LIKELY SAFE",
            "UNCERTAIN"} |->
        CASE t = "HIGH RISK" -> <<"[warn]", "HIGH", "RISK:">>
          [] t = "SUSPICIOUS" -> <<"[warn]", "SUSPICIOUS:">>
          [] t = "POTENTIAL RISK" -> <<"[warn]", "POTENTIAL", "RISK:">>
          [] t = "SAFE" -> <<"[ok]", "SAFE:">>
          [] t = "LIKELY SAFE" -> <<"[ok]", "LIKELY", "SAFE:">>
          [] t = "UNCERTAIN" -> <<"[warn]", "UNCERTAIN:">>]

\* The tiers a message announces.
TiersOf(msg) == {t \in DOMAIN TierLabels : HasPrefix(msg, TierLabels[t])}

\* The table of the specification: the thresholds are 0.8 and 0.6.
TableTier(is_phishing, confidence) ==
    IF is_phishing
    THEN IF confidence * 10 > 8 * ONE THEN "HIGH RISK"
         ELSE IF confidence * 10 > 6 * ONE THEN "SUSPICIOUS"
         ELSE "POTENTIAL RISK"
    ELSE IF confidence * 10 > 8 * ONE THEN "SAFE"
         ELSE IF confidence * 10 > 6 * ONE THEN "LIKELY SAFE"
         ELSE "UNCERTAIN"

\* C3: the message announces the tier of the table; 0.8 is in the middle
\* tier and 0.6 in the lowest.
C3_TierOfTable ==
    Formatted =>
        /\ TiersOf(ret.value) = {TableTier(args.is_phishing, args.confidence)}
        /\ (args.confidence * 10 = 8 * ONE
                => TiersOf(ret.value) \subseteq {"SUSPICIOUS", "LIKELY SAFE"})
        /\ (args.confidence * 10 = 6 * ONE
                => TiersOf(ret.value) \subseteq {"POTENTIAL RISK", "UNCERTAIN"})

\* A confidence just above 0.8 is in the upper tier and prints as 80.0%.
AboveThresholdPrintsThreshold ==
    (Formatted /\ args.is_phishing /\ args.confidence = HIGH_THRESHOLD + 1)
        => ret.value[3] = "RISK:" /\ ret.value[13] = "80.0%"

C3_Witness ==
    /\ Formatted
    /\ args.is_phishing
    /\ args.confidence * 10 = 8 * ONE
    /\ TiersOf(ret.value) = {"SUSPICIOUS"}

\* t tenths of a percent, written with one decimal place.
TenthsText(t) == IntToStr(t \div 10) \o "." \o IntToStr(t % 10) \o "%"

Distance(a, b) == IF a > b THEN a - b ELSE b - a

\* The number of tenths of a percent nearest to a confidence.
NearestTenth(confidence) ==
    LET q == (confidence * 1000) \div ONE
    IN  CHOOSE t \in {q, q + 1} :
            \A u \in {q, q + 1} :
                Distance(confidence * 1000, t * ONE) <= Distance(confidence * 1000, u * ONE)

\* A confidence as a percentage with one decimal place.
PercentText(confidence) == TenthsText(NearestTenth(confidence))

\* Every percentage with one decimal place from 0.0% to 100.0%.
AllPercentTexts == {TenthsText(t) : t \in 0..1000}

Words(msg) == {msg[i] : i \in 1..Len(msg)}

\* C9 as claimed: in all six tiers the message contains the confidence as a
\* percentage with one decimal place.
C9_EveryTierShowsPercent ==
    Formatted => PercentText(args.confidence) \in Words(ret.value)

\* C9 as amended: the message contains the confidence as a percentage with
\* one decimal place in every tier but UNCERTAIN, whose message contains no
\* percentage at all.
C9_FiveTiersShowPercent ==
    Formatted =>
        IF TiersOf(ret.value) = {"UNCERTAIN"}
        THEN Words(ret.value) \cap AllPercentTexts = {}
        ELSE PercentText(args.confidence) \in Words(ret.value)

C9_Witness ==
    /\ Formatted
    /\ ~args.is_phishing
    /\ args.confidence = 4267
    /\ "85.3%" \in Words(ret.value)

-----------------------------------------------------------------------------
(* Concurrent callers (specification Concurrent).  The handlers are async   *)
(* functions without an await, so the event loop runs each to completion;   *)
(* what interleaves is the order in which the requests in flight are        *)
(* handled and answered.                                                     *)

ConcRequests ==
    [url : {Some(Str(1, 1))}, title : {NoneStr}, text : {NoneStr, Some(Str(1, 2))}]

ConcExternals ==
    {NoFault(Distribution(HIGH_THRESHOLD + 1)),
     [fault |-> "tokenize", desc |-> "index out of range",
      probabilities |-> Distribution(0), defines_str |-> TRUE],
     [fault |-> "forward", desc |-> "CUDA out of memory",
      probabilities |-> Distribution(0), defines_str |-> TRUE]}

InFlight ==
    {[state |-> "pending", kind |-> "health"]}
    \cup {[state |-> "pending", kind |-> "analyze", body |-> r, ext |-> e] :
            r \in ConcRequests, e \in ConcExternals}

\* A client posts to /analyze or gets /health.
Send(c) ==
    /\ clients[c].state = "idle"
    /\ \E r \in InFlight : clients' = [clients EXCEPT ![c] = r]
    /\ UNCHANGED service_vars
    /\ UNCHANGED harness_vars
    /\ UNCHANGED alt

\* What the handler of a request in flight answers.
Answer(r) ==
    IF r.kind = "health"
    THEN [response |-> health_check, calls |-> NoCalls]
    ELSE post_analyze(r.body, r.ext)

Handled(r) ==
    LET out == Answer(r)
    IN  IF r.kind = "health"
        THEN [state |-> "done", kind |-> "health",
              response |-> out.response, calls |-> out.calls, at |-> phase]
        ELSE [state |-> "done", kind |-> "analyze", body |-> r.body, ext |-> r.ext,
              response |-> out.response, calls |-> out.calls, at |-> phase]

\* Mutant: a request that fails drops the model so that it is loaded afresh.
Handle_drop_model_on_failure(c) ==
    /\ Serving
    /\ clients[c].state = "pending"
    /\ clients' = [clients EXCEPT ![c] = Handled(clients[c])]
    /\ model' = IF Answer(clients[c]).response.status_code = 500 THEN None ELSE model
    /\ UNCHANGED <<tokenizer, device, phase, loads, request, response, calls, at,
                   load_error>>
    /\ UNCHANGED harness_vars
    /\ UNCHANGED alt

\* The event loop runs health_check or analyze_phishing for one request.
Handle(c) ==
    /\ Serving
    /\ clients[c].state = "pending"
    /\ clients' = [clients EXCEPT ![c] = Handled(clients[c])]
    /\ UNCHANGED service_vars
    /\ UNCHANGED harness_vars
    /\ UNCHANGED alt

\* The client has read its response and may send again.
Deliver(c) ==
    /\ clients[c].state = "done"
    /\ clients' = [clients EXCEPT ![c] = Idle]
    /\ UNCHANGED service_vars
    /\ UNCHANGED harness_vars
    /\ UNCHANGED alt

SendAny == \E c \in Clients : Send(c)

HandleAny == \E c \in Clients : Handle(c)

DeliverAny == \E c \in Clients : Deliver(c)

ConcurrentNext == Startup \/ LoadModel \/ SendAny \/ HandleAny \/ DeliverAny

Concurrent == Init /\ [][ConcurrentNext]_vars

\* The outcome of a request handled while Ready, from its own fields alone.
OwnOutcome(r) ==
    IF r.kind = "health"
    THEN r.response.status_code = 200 /\ r.response.model_loaded
    ELSE IF r.ext.fault # "none"
    THEN /\ r.response.status_code = 500
         /\ r.response.detail = "Analysis failed: " \o r.ext.desc
    ELSE /\ r.response.status_code = 200
         /\ r.response.risk_score = r.ext.probabilities[2]
         /\ r.response.is_phishing = (r.ext.probabilities[2] > r.ext.probabilities[1])
         /\ SubSeq(r.response.details.analysis_text, 1, Len(URL_LABEL) + Len(r.body.url.s))
                = URL_LABEL \o r.body.url.s
         /\ (Truthy(r.body.text)
                <=> Len(r.response.details.analysis_text)
                        > Len(URL_LABEL) + Len(r.body.url.s))

C11_OwnOutcome ==
    \A c \in Clients :
        (clients[c].state = "done" /\ clients[c].at = "Ready") => OwnOutcome(clients[c])

C11_NoSharedWrite ==
    clients' # clients => UNCHANGED <<model, tokenizer, device, phase, loads>>

\* C11: whatever the order in which concurrent /analyze and /health requests
\* are handled, no request changes the shared model state, and every
\* response is the one its own request fields and the loaded model give:
\* a failing request leaves the outcome of the others as it is.
C11_RequestsIsolated == [](C11_OwnOutcome) /\ [][C11_NoSharedWrite]_vars

\* One client got a 500 and another one a 200, both from the loaded model.
C11_Witness ==
    \E c, d \in Clients :
        /\ clients[c].state = "done" /\ clients[c].at = "Ready"
        /\ clients[c].kind = "analyze" /\ clients[c].response.status_code = 500
        /\ clients[d].state = "done" /\ clients[d].at = "Ready"
        /\ clients[d].kind = "analyze" /\ clients[d].response.status_code = 200

-----------------------------------------------------------------------------
(* Order of the steps of analyze_phishing (specification Spec) *)

\* C12: a request handled while model or tokenizer is None invokes neither
\* the normalizer nor the tokenizer nor the model; a request handled while
\* Ready invokes the tokenizer and the model at most once each.
C12_ReadinessCheckedFirstNoRetry ==
    AnalyzeHandled =>
        /\ (at = "Unloaded"
                => calls.normalize = 0 /\ calls.tokenizer = 0 /\ calls.model = 0)
        /\ (at = "Ready" => calls.tokenizer <= 1 /\ calls.model <= 1)

C12_Witness ==
    /\ AnalyzeHandled
    /\ at = "Unloaded"
    /\ model = None
    /\ tokenizer = None
    /\ response.status_code = 500
    /\ calls = NoCalls

-----------------------------------------------------------------------------
(* The alternate service, src/ai/ml-inference/main.py (specification        *)
(* Alternate).  Its state is the record alt: app.tokenizer and app.model     *)
(* (None while the attribute is not set), the lifecycle phase, the last      *)
(* request and its response.                                                 *)

\* probabilities[1].item: the attribute is read and not called, so the
\* value is the bound method of the tensor element.
item_attribute(element) == [bound_method |-> TRUE, element |-> element]

\* float(x): a number converts, a bound method raises TypeError.
float(x) ==
    IF x.bound_method
    THEN [exc |-> TRUE,
          desc |-> "float() argument must be a string or a real number, not 'builtin_function_or_method'"]
    ELSE [exc |-> FALSE, value |-> x.element]

PredictError(detail) == [kind |-> "predict", status_code |-> 500, detail |-> detail]

\* The try block of predict: the response, or the exception that left it.
predict_try(text, ext) ==
    IF alt.tokenizer = None
    THEN [exc |-> TRUE, desc |-> "'FastAPI' object has no attribute 'tokenizer'"]
    ELSE IF ext.fault = "tokenize"
    THEN [exc |-> TRUE, desc |-> ext.desc]
    ELSE IF alt.model = None
    THEN [exc |-> TRUE, desc |-> "'FastAPI' object has no attribute 'model'"]
    ELSE IF ext.fault = "forward"
    THEN [exc |-> TRUE, desc |-> ext.desc]
    ELSE
    LET probabilities == ext.probabilities
        phishing_prob == float(item_attribute(probabilities[1 + 1]))
    IN  IF phishing_prob.exc
        THEN [exc |-> TRUE, desc |-> phishing_prob.desc]
        ELSE [exc |-> FALSE,
              result |->
                  [kind |-> "predict", status_code |-> 200,
                   phishing_probability |-> phishing_prob.value,
                   prediction |-> IF phishing_prob.value * 2 > ONE
                                  THEN "phishing" ELSE "not phishing"]]

\* predict: the try block and its `except Exception` clause.
predict(text, ext) ==
    LET body == predict_try(text, ext)
    IN  IF body.exc THEN PredictError(body.desc) ELSE body.result

\* PredictRequest: text is a required str.
PredictRequest(text) == text.some

post_predict(text, ext) ==
    IF ~PredictRequest(text)
    THEN [kind |-> "predict", status_code |-> 422, detail |-> "Field required"]
    ELSE predict(text, ext)

AltExternals ==
    {NoFault(d) : d \in ServiceDistributions}
    \cup [fault : {"tokenize", "forward"}, desc : Descriptions,
          probabilities : {Distribution(0)}, defines_str : {TRUE}]

AltServing == alt.phase \in {"Unloaded", "Ready"}

AltUnchanged ==
    /\ UNCHANGED service_vars
    /\ UNCHANGED harness_vars
    /\ UNCHANGED clients

AltStartup ==
    /\ alt.phase = "Unloaded"
    /\ alt' = [alt EXCEPT !.phase = "Loading"]
    /\ AltUnchanged

\* load_model of the alternate service: no try block, an exception of
\* from_pretrained leaves the startup handler and aborts the startup.
AltLoadModel ==
    /\ alt.phase = "Loading"
    /\ \E failure \in {"none", "tokenizer", "model"} :
          alt' = [alt EXCEPT
                    !.tokenizer = IF failure = "tokenizer" THEN @ ELSE "tokenizer",
                    !.model = IF failure = "none" THEN "model" ELSE @,
                    !.phase = IF failure = "none" THEN "Ready" ELSE "Failed"]
    /\ AltUnchanged

AltReadRoot ==
    /\ AltServing
    /\ alt' = [alt EXCEPT
                 !.request = [kind |-> "root"],
                 !.response = [kind |-> "root", status_code |-> 200],
                 !.at = alt.phase]
    /\ AltUnchanged

AltPredict ==
    /\ AltServing
    /\ \E text \in Texts, ext \in AltExternals :
          alt' = [alt EXCEPT
                    !.request = [kind |-> "predict", text |-> text, ext |-> ext],
                    !.response = post_predict(text, ext),
                    !.at = alt.phase]
    /\ AltUnchanged

AlternateNext == AltStartup \/ AltLoadModel \/ AltReadRoot \/ AltPredict

Alternate == Init /\ [][AlternateNext]_vars

\* C13: a /predict request whose tokenization and forward pass succeed is
\* answered 200 with phishing_probability the probability of class index 1
\* and prediction 'phishing' exactly when that probability is above 0.5; a
\* 500 is answered only when tokenization or the forward pass fails.
C13_PredictAnswersProbability ==
    (/\ alt.response.kind = "predict"
     /\ alt.at = "Ready"
     /\ PredictRequest(alt.request.text))
        => /\ (alt.request.ext.fault = "none"
                  => /\ alt.response.status_code = 200
                     /\ alt.response.phishing_probability
                            = alt.request.ext.probabilities[2]
                     /\ alt.response.prediction
                            = IF alt.request.ext.probabilities[2] * 2 > ONE
                              THEN "phishing" ELSE "not phishing")
           /\ (alt.response.status_code = 500 => alt.request.ext.fault # "none")

====
